---- MODULE Spec2Model ----
(***************************************************************************)
(* A model of src/app.py: the value normalizer clean_currency, the         *)
(* manifest loader load_data (header trimming, fuzzy column resolution,    *)
(* the column presence gate, row cleaning, aggregation, the per-file       *)
(* exception handler) and the scenario arithmetic of the analysis tab.     *)
(*                                                                         *)
(* Text is a sequence of one-character strings.  A float is modelled as an *)
(* exact decimal m / 10^e in canonical form (binary rounding is not        *)
(* modelled).  float() is modelled on plain decimal literals: an optional  *)
(* sign, digits and at most one point; the generated alphabets hold no     *)
(* letter of "inf", "nan", no exponent marker and no underscore.           *)
(***************************************************************************)
EXTENDS Integers, Sequences, FiniteSets, TLC

VARIABLES
    uploaded_files,  \* load_data: the batch of uploaded files, in order
    idx,             \* load_data: position of the for loop (next file)
    all_data,        \* load_data: the summaries appended so far
    pc,              \* load_data: "idle" | "loop" | "returned" | "raised"
    x,               \* clean_currency: the raw cell
    y,               \* clean_currency(x)
    z,               \* clean_currency(str(y))
    npc,             \* normalizer position: "idle" | "in" | "out" | "again"
    columns,         \* column resolution: the trimmed header list
    resolved,        \* column resolution: the names found
    rpc,             \* resolver position: "idle" | "in" | "out"
    report           \* analysis tab: inputs and computed figures

vars == <<uploaded_files, idx, all_data, pc, x, y, z, npc, columns, resolved, rpc, report>>

loaderVars == <<uploaded_files, idx, all_data, pc>>
normVars == <<x, y, z, npc>>
resolveVars == <<columns, resolved, rpc>>

(***************************************************************************)
(* Bounds of the model.                                                    *)
(***************************************************************************)
MaxLen == 4        \* longest generated text cell
MaxCols == 3       \* longest generated header list
MaxRows == 2       \* most rows of a generated table
MaxFiles == 3      \* largest generated batch
MaxPackages == 2   \* most OK packages in the analysis tab

(***************************************************************************)
(* Sequences and characters.                                               *)
(***************************************************************************)
Max(a, b) == IF a >= b THEN a ELSE b

RECURSIVE Pow10(_)
Pow10(n) == IF n = 0 THEN 1 ELSE 10 * Pow10(n - 1)

DigitSeq == <<"0", "1", "2", "3", "4", "5", "6", "7", "8", "9">>
Digits == {DigitSeq[i] : i \in 1..10}
DigitVal(c) == (CHOOSE i \in 1..10 : DigitSeq[i] = c) - 1
DigitChar(n) == DigitSeq[n + 1]

UpperSeq == <<"A", "B", "C", "D", "E", "F", "G", "H", "I", "J", "K", "L", "M",
              "N", "O", "P", "Q", "R", "S", "T", "U", "V", "W", "X", "Y", "Z">>
LowerSeq == <<"a", "b", "c", "d", "e", "f", "g", "h", "i", "j", "k", "l", "m",
              "n", "o", "p", "q", "r", "s", "t", "u", "v", "w", "x", "y", "z">>

\* str.lower(), one character
LowerChar(c) ==
    IF \E i \in 1..26 : UpperSeq[i] = c
    THEN LowerSeq[CHOOSE i \in 1..26 : UpperSeq[i] = c]
    ELSE c

\* str.lower()
lower(s) == [i \in 1..Len(s) |-> LowerChar(s[i])]

\* the characters str.strip() removes; NBSP is U+00A0
Whitespace == {" ", "NBSP"}

RECURSIVE lstrip(_)
lstrip(s) == IF s # <<>> /\ Head(s) \in Whitespace THEN lstrip(Tail(s)) ELSE s

RECURSIVE rstrip(_)
rstrip(s) ==
    IF s # <<>> /\ s[Len(s)] \in Whitespace THEN rstrip(SubSeq(s, 1, Len(s) - 1)) ELSE s

\* str.strip()
strip(s) == rstrip(lstrip(s))

\* sub in s (substring test)
Contains(s, sub) ==
    \E i \in 0..(Len(s) - Len(sub)) : SubSeq(s, i + 1, i + Len(sub)) = sub

RECURSIVE RemoveChars(_, _)
\* s.replace(ch, '') for every ch of chars
RemoveChars(s, chars) ==
    IF s = <<>> THEN <<>>
    ELSE IF Head(s) \in chars THEN RemoveChars(Tail(s), chars)
    ELSE <<Head(s)>> \o RemoveChars(Tail(s), chars)

\* s.replace(a, b), one character for one character
ReplaceChar(s, a, b) == [i \in 1..Len(s) |-> IF s[i] = a THEN b ELSE s[i]]

RECURSIVE NatDigits(_)
\* the decimal digits of a natural number
NatDigits(n) == IF n < 10 THEN <<DigitChar(n)>> ELSE NatDigits(n \div 10) \o <<DigitChar(n % 10)>>

RECURSIVE DigitsVal(_)
\* the natural number a digit string denotes (0 for the empty string)
DigitsVal(s) == IF s = <<>> THEN 0 ELSE 10 * DigitsVal(SubSeq(s, 1, Len(s) - 1)) + DigitVal(s[Len(s)])

Abs(n) == IF n < 0 THEN -n ELSE n

(***************************************************************************)
(* Cells.  One record shape for every scalar a table cell can hold and     *)
(* clean_currency can return: kind "none" (None, pd.NA), "nan" (np.nan),   *)
(* "str", "bytes" (s: the characters or bytes), "int", "bool" (m: the      *)
(* value, True = 1), "float" (m / 10^e).                                   *)
(***************************************************************************)
Cell(kind, s, m, e) == [kind |-> kind, s |-> s, m |-> m, e |-> e]
NoneCell == Cell("none", <<>>, 0, 0)
NaN == Cell("nan", <<>>, 0, 0)
StrCell(s) == Cell("str", s, 0, 0)
BytesCell(b) == Cell("bytes", b, 0, 0)
IntCell(v) == Cell("int", <<>>, v, 0)
BoolCell(b) == Cell("bool", <<>>, IF b THEN 1 ELSE 0, 0)

RECURSIVE Canon(_, _)
\* the canonical decimal m / 10^e: no trailing zero in the fraction
Canon(m, e) ==
    IF e > 0 /\ m % 10 = 0 THEN Canon(m \div 10, e - 1) ELSE [m |-> m, e |-> e]

FloatCell(m, e) == LET c == Canon(m, e) IN Cell("float", <<>>, c.m, c.e)

\* placeholder of the model for "not computed yet"
Pending == Cell("pending", <<>>, 0, 0)

(***************************************************************************)
(* clean_currency (src/app.py 100-154) and what it calls.                  *)
(***************************************************************************)
\* pd.isna(x) on a scalar
isna(v) == v.kind \in {"none", "nan"}

\* bytes.decode('utf-8') raises on a byte that is no valid UTF-8 (here 0xFF)
Utf8Decodes(b) == \A i \in 1..Len(b) : b[i] # "xFF"

\* bytes.decode('latin1', errors='ignore'): every byte is a character, 0xFF is U+00FF
Latin1Decode(b) == ReplaceChar(b, "xFF", "LATIN_Y")

\* lines 117-121
DecodeBytes(b) == IF Utf8Decodes(b) THEN b ELSE Latin1Decode(b)

\* line 135, with '.' added to the characters removed
CurrencyCharsAndPoint == {"$", "EUR", "GBP", ",", "%", "NBSP", "."}

\* line 135: the characters removed everywhere in the string
CurrencyChars == {"$", "EUR", "GBP", ",", "%", "NBSP"}

\* whether float(s) succeeds, s already stripped
IsFloatLiteral(s) ==
    LET body == IF s # <<>> /\ Head(s) \in {"+", "-"} THEN Tail(s) ELSE s
    IN  /\ \A i \in 1..Len(body) : body[i] \in Digits \cup {"."}
        /\ Cardinality({i \in 1..Len(body) : body[i] = "."}) <= 1
        /\ \E i \in 1..Len(body) : body[i] \in Digits

\* float(s) for a literal s
float(s) ==
    LET neg == Head(s) = "-"
        body == IF Head(s) \in {"+", "-"} THEN Tail(s) ELSE s
        dot == IF \E i \in 1..Len(body) : body[i] = "."
               THEN CHOOSE i \in 1..Len(body) : body[i] = "."
               ELSE Len(body) + 1
        ip == SubSeq(body, 1, dot - 1)
        fp == SubSeq(body, dot + 1, Len(body))
        m == DigitsVal(ip \o fp)
    IN  FloatCell(IF neg THEN -m ELSE m, Len(fp))

\* val returned with its sign, the negative flag ignored
KeepSign(v) == FloatCell(v.m, v.e)

\* -val
Negate(v) == FloatCell(-v.m, v.e)

\* lines 124-151: the string branch
CleanString(str) ==
    LET s0 == strip(str)
        negative == s0 # <<>> /\ Head(s0) = "(" /\ s0[Len(s0)] = ")"
        s1 == IF negative THEN strip(SubSeq(s0, 2, Len(s0) - 1)) ELSE s0
        s2 == RemoveChars(s1, CurrencyChars)
        s3 == strip(ReplaceChar(s2, "MINUS", "-"))
    IN  IF s0 = <<>> THEN NaN
        ELSE IF s3 \in {<<>>, <<"-", "-">>, <<"-">>} THEN NaN
        ELSE IF IsFloatLiteral(s3)
             THEN (IF negative THEN Negate(float(s3)) ELSE float(s3))
             ELSE StrCell(s3)

\* lines 100-154
clean_currency(v) ==
    IF isna(v) THEN NaN
    ELSE LET d == IF v.kind = "bytes" THEN StrCell(DecodeBytes(v.s)) ELSE v
         IN  IF d.kind = "str" THEN CleanString(d.s) ELSE d

(***************************************************************************)
(* Python's str() of a value clean_currency returns.  A float prints in    *)
(* positional notation (repr switches to an exponent only below 1e-4 and   *)
(* from 1e16 on, outside the values generated here).                       *)
(***************************************************************************)
Zeros(n) == [i \in 1..n |-> "0"]

FloatStr(m, e) ==
    LET ds == NatDigits(Abs(m))
        padded == Zeros(Max(0, e + 1 - Len(ds))) \o ds
        ip == SubSeq(padded, 1, Len(padded) - e)
        fp == IF e = 0 THEN <<"0">> ELSE SubSeq(padded, Len(padded) - e + 1, Len(padded))
    IN  (IF m < 0 THEN <<"-">> ELSE <<>>) \o ip \o <<".">> \o fp

PyStr(v) ==
    CASE v.kind = "float" -> FloatStr(v.m, v.e)
      [] v.kind = "int" -> (IF v.m < 0 THEN <<"-">> ELSE <<>>) \o NatDigits(Abs(v.m))
      [] v.kind = "bool" -> IF v.m = 1 THEN <<"T", "r", "u", "e">> ELSE <<"F", "a", "l", "s", "e">>
      [] v.kind = "str" -> v.s
      [] OTHER -> <<"n", "a", "n">>

\* the value is a number (Python's bool is an int)
IsNumber(v) == v.kind \in {"int", "float", "bool"}

\* the numeric value of a number, as a canonical decimal
NumVal(v) == Canon(v.m, v.e)

(***************************************************************************)
(* The raw cells the normalizer is run on.                                 *)
(***************************************************************************)
Alphabet == {"5", "0", ".", "-", "(", ")", "$", " ", "x"}

SeqsUpTo(S, n) == UNION {[1..k -> S] : k \in 0..n}

GeneratedTexts == SeqsUpTo(Alphabet, MaxLen)

SampleTexts ==
    { <<"$", "1", ",", "2", "3", "4", ".", "5", "6">>,
      <<"(", "1", ",", "2", "3", "4", ".", "5", "6", ")">>,
      <<"MINUS", "5">>, <<"(", "MINUS", "5", ")">>, <<"+", "5">>,
      <<"EUR", "5", "NBSP">>, <<"5", "%">>, <<"1", ".", "2", "3", "4", ",", "5", "6">>,
      <<"(", "(", "5", ")", ")">>, <<"T", "r", "u", "e">> }

SampleBytes ==
    { <<"$", "5">>, <<"(", "5", ")">>, <<"xFF", "5">>, <<"xFF">>, <<>>, <<" ", "5", ".", "5">> }

SampleInts == {-5, 0, 7, 10}

SampleFloats == {FloatCell(25, 1), FloatCell(-125, 2), FloatCell(0, 0), FloatCell(5, 3)}

RawCells ==
    {NoneCell, NaN}
    \cup {StrCell(s) : s \in GeneratedTexts \cup SampleTexts}
    \cup {BytesCell(b) : b \in SampleBytes}
    \cup {IntCell(v) : v \in SampleInts}
    \cup SampleFloats
    \cup {BoolCell(b) : b \in BOOLEAN}

(***************************************************************************)
(* The normalizer run on one cell, then on the text of its result.         *)
(***************************************************************************)
Normalize ==
    /\ npc = "in"
    /\ y' = clean_currency(x)
    /\ npc' = "out"
    /\ UNCHANGED <<x, z, loaderVars, resolveVars, report>>

Renormalize ==
    /\ npc = "out"
    /\ IsNumber(y)
    /\ z' = clean_currency(StrCell(PyStr(y)))
    /\ npc' = "again"
    /\ UNCHANGED <<x, y, loaderVars, resolveVars, report>>

(***************************************************************************)
(* Column resolution (src/app.py 172-188).  A name found is                *)
(* [found |-> TRUE, name |-> c]; Python's None is NoColumn.                *)
(***************************************************************************)
NoColumn == [found |-> FALSE, name |-> <<>>]
Column(c) == [found |-> TRUE, name |-> c]

\* line 177: 'qty' in c.lower()
IsQty(c) == Contains(lower(c), <<"q", "t", "y">>)

\* line 178: 'unit retail' in c.lower()
IsUnitRetail(c) == Contains(lower(c), <<"u", "n", "i", "t", " ", "r", "e", "t", "a", "i", "l">>)

\* line 180: 'retail' in c.lower() and 'ext' not in c.lower()
IsPlainRetail(c) == Contains(lower(c), <<"r", "e", "t", "a", "i", "l">>) /\ ~Contains(lower(c), <<"e", "x", "t">>)

\* line 182: 'ext' in c.lower() and 'retail' in c.lower()
IsExtRetail(c) == Contains(lower(c), <<"e", "x", "t">>) /\ Contains(lower(c), <<"r", "e", "t", "a", "i", "l">>)

\* line 185: 'cost' in c.lower() and 'ext' in c.lower()
IsExtCost(c) == Contains(lower(c), <<"c", "o", "s", "t">>) /\ Contains(lower(c), <<"e", "x", "t">>)

\* line 188: 'desc' in c.lower() or 'item' in c.lower() or 'product' in c.lower()
IsDesc(c) ==
    \/ Contains(lower(c), <<"d", "e", "s", "c">>)
    \/ Contains(lower(c), <<"i", "t", "e", "m">>)
    \/ Contains(lower(c), <<"p", "r", "o", "d", "u", "c", "t">>)

Matches(p, c) ==
    CASE p = "qty" -> IsQty(c)
      [] p = "unit retail" -> IsUnitRetail(c)
      [] p = "retail" -> IsPlainRetail(c)
      [] p = "ext retail" -> IsExtRetail(c)
      [] p = "ext cost" -> IsExtCost(c)
      [] p = "desc" -> IsDesc(c)

RECURSIVE next(_, _)
\* next((c for c in df.columns if <p>), None)
next(cols, p) ==
    IF cols = <<>> THEN NoColumn
    ELSE IF Matches(p, Head(cols)) THEN Column(Head(cols))
    ELSE next(Tail(cols), p)

\* line 177
col_qty(cols) == next(cols, "qty")

\* lines 178-180, the fallback tried first
col_retail_fallback_first(cols) ==
    IF next(cols, "retail").found THEN next(cols, "retail") ELSE next(cols, "unit retail")

\* lines 178-180
col_retail(cols) ==
    IF next(cols, "unit retail").found THEN next(cols, "unit retail") ELSE next(cols, "retail")

\* lines 182-185
col_ext_cost(cols) ==
    IF next(cols, "ext retail").found THEN next(cols, "ext retail") ELSE next(cols, "ext cost")

\* line 188
col_desc(cols) == next(cols, "desc")

\* lines 177-188
ResolveColumns(cols) ==
    [qty |-> col_qty(cols), retail |-> col_retail(cols),
     cost |-> col_ext_cost(cols), desc |-> col_desc(cols)]

\* header names the resolver is run on (already trimmed)
HeaderNames ==
    { <<"Q", "t", "y">>, <<"U", "n", "i", "t", " ", "R", "e", "t", "a", "i", "l">>, <<"R", "e", "t", "a", "i", "l">>, <<"E", "x", "t", ".", " ", "R", "e", "t", "a", "i", "l">>, <<"E", "x", "t", " ", "C", "o", "s", "t">>, <<"C", "o", "s", "t">>,
      <<"E", "X", "T", " ", "U", "N", "I", "T", " ", "R", "E", "T", "A", "I", "L">>, <<"I", "t", "e", "m", " ", "D", "e", "s", "c", "r", "i", "p", "t", "i", "o", "n">>, <<"N", "e", "x", "t", " ", "C", "o", "s", "t">>, <<"P", "r", "i", "c", "e">> }

HeaderLists == SeqsUpTo(HeaderNames, MaxCols)

Resolve ==
    /\ rpc = "in"
    /\ resolved' = ResolveColumns(columns)
    /\ rpc' = "out"
    /\ UNCHANGED <<columns, loaderVars, normVars, report>>

(***************************************************************************)
(* Decimal arithmetic on the cleaned columns, and the data frame: its      *)
(* column names in order and its rows, one cell per column.                *)
(***************************************************************************)
Zero == [m |-> 0, e |-> 0]

DecAdd(a, b) ==
    LET e == Max(a.e, b.e)
    IN  Canon(a.m * Pow10(e - a.e) + b.m * Pow10(e - b.e), e)

DecMul(a, b) == Canon(a.m * b.m, a.e + b.e)

RECURSIVE SumSeries(_)
\* Series.sum() of a cleaned column
SumSeries(s) ==
    IF s = <<>> THEN Zero ELSE DecAdd(NumVal(Head(s)), SumSeries(Tail(s)))

EmptyFrame == [columns |-> <<>>, data |-> <<>>]

Positions(df, name) == {i \in 1..Len(df.columns) : df.columns[i] = name}

\* df[name] is a DataFrame, not a Series, when the label occurs more than once
IsFrame(df, name) == Cardinality(Positions(df, name)) > 1

\* df[name], the label occurring once
Series(df, name) ==
    LET i == CHOOSE j \in Positions(df, name) : TRUE
    IN  [r \in 1..Len(df.data) |-> df.data[r][i]]

\* df[name] = series, an existing column of that name left as it was
SetColumnKeepsExisting(df, name, series) ==
    IF Positions(df, name) = {}
    THEN [columns |-> Append(df.columns, name),
          data |-> [r \in 1..Len(df.data) |-> Append(df.data[r], series[r])]]
    ELSE df

\* df[name] = series: a new column at the end, or the existing one replaced
SetColumn(df, name, series) ==
    IF Positions(df, name) = {}
    THEN [columns |-> Append(df.columns, name),
          data |-> [r \in 1..Len(df.data) |-> Append(df.data[r], series[r])]]
    ELSE [columns |-> df.columns,
          data |-> [r \in 1..Len(df.data) |->
                      [i \in 1..Len(df.columns) |->
                          IF i \in Positions(df, name) THEN series[r] ELSE df.data[r][i]]]]

\* pd.to_numeric(v, errors='coerce'), one value: a string left by
\* clean_currency failed float() and is coerced to NaN
to_numeric(v) == IF IsNumber(v) THEN FloatCell(v.m, v.e) ELSE NaN

\* .fillna(0), one value
fillna0(v) == IF v.kind = "nan" THEN FloatCell(0, 0) ELSE v

\* pd.to_numeric(series, errors='coerce').fillna(0), clean_currency not applied
CleanColumnUnnormalized(series) ==
    [r \in 1..Len(series) |-> fillna0(to_numeric(series[r]))]

\* pd.to_numeric(series.apply(clean_currency), errors='coerce').fillna(0)
CleanColumn(series) ==
    [r \in 1..Len(series) |-> fillna0(to_numeric(clean_currency(series[r])))]

\* df['Qty_Clean'] * df['Retail_Clean']
Product(a, b) ==
    [r \in 1..Len(a) |->
        LET v == DecMul(NumVal(a[r]), NumVal(b[r])) IN FloatCell(v.m, v.e)]

Qty_Clean == <<"Q", "t", "y", "_", "C", "l", "e", "a", "n">>
Retail_Clean == <<"R", "e", "t", "a", "i", "l", "_", "C", "l", "e", "a", "n">>
Cost_Clean == <<"C", "o", "s", "t", "_", "C", "l", "e", "a", "n">>
Total_Retail_Value == <<"T", "o", "t", "a", "l", "_", "R", "e", "t", "a", "i", "l", "_", "V", "a", "l", "u", "e">>

(***************************************************************************)
(* load_data (src/app.py 157-232).  An uploaded file is its name, what     *)
(* each reader raises on it ("" when it succeeds) and the table the first  *)
(* successful reader returns: header values (text, or not text as an Excel *)
(* header can be) and rows.                                                *)
(***************************************************************************)
StripError == "'int' object has no attribute 'strip'"
FrameError == "arg must be a list, tuple, 1-d array, or Series"

NoDetails == [text |-> "", found |-> <<>>]

\* line 195
MissingDetails(cols) == [text |-> "Missing Columns. Found: ", found |-> cols]

\* line 228
ExceptionDetails(exc) == [text |-> exc, found |-> <<>>]

Summary(name, status, details, items, variety, cost, retail, raw) ==
    [Filename |-> name, Status |-> status, Details |-> details, Items |-> items,
     Variety |-> variety, Total_Cost |-> cost, Total_Retail |-> retail, Raw_Data |-> raw]

NoSummary == Summary([stem |-> "", ext |-> ""], "", NoDetails, Zero, 0, Zero, Zero, EmptyFrame)

Returns(s) == [exc |-> "", summary |-> s]
Raises(exc) == [exc |-> exc, summary |-> NoSummary]

\* lines 162-169: the exception the readers leave, "" when one of them succeeds
ReadException(f) ==
    IF f.name.ext = "csv"
    THEN (IF f.utf8_exc = "" THEN "" ELSE f.latin1_exc)
    ELSE f.excel_exc

\* line 193: all([col_qty, col_retail, col_ext_cost])
GatePasses(c) == c.qty.found /\ c.retail.found /\ c.cost.found

\* lines 198-203
CleanFrame(df, c) ==
    LET df1 == SetColumn(df, Qty_Clean, CleanColumn(Series(df, c.qty.name)))
        df2 == SetColumn(df1, Retail_Clean, CleanColumn(Series(df1, c.retail.name)))
        df3 == SetColumn(df2, Cost_Clean, CleanColumn(Series(df2, c.cost.name)))
    IN  SetColumn(df3, Total_Retail_Value,
                  Product(Series(df3, Qty_Clean), Series(df3, Retail_Clean)))

\* line 207: len(df[df['Qty_Clean'] > 0])
VarietyCount(df) ==
    Cardinality({r \in 1..Len(df.data) : Series(df, Qty_Clean)[r].m > 0})

\* lines 212-221, status OK
OkSummary(name, df) ==
    Summary(name, "OK", NoDetails, SumSeries(Series(df, Qty_Clean)), VarietyCount(df),
            SumSeries(Series(df, Cost_Clean)), SumSeries(Series(df, Total_Retail_Value)), df)

\* lines 212-221 with line 194 left out: the status stays "OK"
ErrorSummaryStatusOk(name, cols) ==
    Summary(name, "OK", MissingDetails(cols), Zero, 0, Zero, Zero, EmptyFrame)

\* lines 212-221, status ERROR
ErrorSummary(name, cols) ==
    Summary(name, "ERROR", MissingDetails(cols), Zero, 0, Zero, Zero, EmptyFrame)

\* lines 172-222: the try body once the table is read
ProcessTable(f) ==
    IF \E i \in 1..Len(f.header) : ~f.header[i].isstr
    THEN Raises(StripError)
    ELSE LET cols == [i \in 1..Len(f.header) |-> strip(f.header[i].s)]
             df == [columns |-> cols, data |-> f.rows]
             c == ResolveColumns(cols)
         IN  IF ~GatePasses(c)
             THEN Returns(ErrorSummary(f.name, cols))
             ELSE IF \/ IsFrame(df, c.qty.name)
                     \/ IsFrame(df, c.retail.name)
                     \/ IsFrame(df, c.cost.name)
             THEN Raises(FrameError)
             ELSE Returns(OkSummary(f.name, CleanFrame(df, c)))

\* lines 161-222: the try body
TryBody(f) ==
    IF ReadException(f) # "" THEN Raises(ReadException(f)) ELSE ProcessTable(f)

\* line 224, catching only what the readers raise
CatchesReadErrors(exc) == exc \notin {StripError, FrameError}

\* line 224: except Exception catches every exception of the try body
Catches(exc) == TRUE

\* lines 225-230, the file left out of the result
NoCriticalSummary(name, exc) == <<>>

\* lines 225-230
CriticalSummary(name, exc) ==
    <<Summary(name, "CRITICAL ERROR", ExceptionDetails(exc), Zero, 0, Zero, Zero, EmptyFrame)>>

\* lines 160-230: one iteration of the for loop
LoadFile ==
    /\ pc = "loop"
    /\ idx <= Len(uploaded_files)
    /\ LET f == uploaded_files[idx]
           r == TryBody(f)
       IN  IF r.exc = ""
           THEN /\ all_data' = Append(all_data, r.summary)
                /\ idx' = idx + 1
                /\ pc' = pc
           ELSE IF Catches(r.exc)
           THEN /\ all_data' = all_data \o CriticalSummary(f.name, r.exc)
                /\ idx' = idx + 1
                /\ pc' = pc
           ELSE /\ pc' = "raised"
                /\ UNCHANGED <<all_data, idx>>
    /\ UNCHANGED <<uploaded_files, normVars, resolveVars, report>>

\* line 232
Return ==
    /\ pc = "loop"
    /\ idx > Len(uploaded_files)
    /\ pc' = "returned"
    /\ UNCHANGED <<uploaded_files, idx, all_data, normVars, resolveVars, report>>

(***************************************************************************)
(* The uploaded files the loader is run on.                                *)
(***************************************************************************)
Text(s) == [isstr |-> TRUE, s |-> s]
NotText(s) == [isstr |-> FALSE, s |-> s]

File(name, u8, l1, xl, header, rows) ==
    [name |-> name, utf8_exc |-> u8, latin1_exc |-> l1, excel_exc |-> xl,
     header |-> header, rows |-> rows]

Name(stem, ext) == [stem |-> stem, ext |-> ext]

ExampleHeader == <<Text(<<"Q", "t", "y">>), Text(<<"U", "n", "i", "t", " ", "R", "e", "t", "a", "i", "l">>), Text(<<"E", "x", "t", ".", " ", "R", "e", "t", "a", "i", "l">>)>>

\* the end-to-end example: Qty,Unit Retail,Ext. Retail / 10,$5.00,$2.00 / 5,$10.00,$4.00
ExampleFile ==
    File(Name("example", "csv"), "", "", "", ExampleHeader,
         << <<IntCell(10), StrCell(<<"$", "5", ".", "0", "0">>), StrCell(<<"$", "2", ".", "0", "0">>)>>,
            <<IntCell(5), StrCell(<<"$", "1", "0", ".", "0", "0">>), StrCell(<<"$", "4", ".", "0", "0">>)>> >>)

FileHeaderLists ==
    { ExampleHeader,
      <<Text(<<" ", "Q", "T", "Y", " ">>), Text(<<"R", "e", "t", "a", "i", "l">>), Text(<<"E", "x", "t", " ", "C", "o", "s", "t">>)>>,
      <<Text(<<"N", "a", "m", "e">>), Text(<<"P", "r", "i", "c", "e">>)>>,
      <<Text(<<"Q", "t", "y">>), Text(<<"U", "n", "i", "t", " ", "R", "e", "t", "a", "i", "l", " ">>)>>,
      <<Text(<<"Q", "t", "y">>), Text(<<" ", "Q", "t", "y">>), Text(<<"U", "n", "i", "t", " ", "R", "e", "t", "a", "i", "l">>), Text(<<"E", "x", "t", ".", " ", "R", "e", "t", "a", "i", "l">>)>>,
      <<Text(<<"E", "x", "t", ".", " ", "R", "e", "t", "a", "i", "l">>), Text(<<"R", "e", "t", "a", "i", "l">>), Text(<<"Q", "t", "y">>)>>,
      <<Text(<<"Q", "t", "y">>), Text(<<"U", "n", "i", "t", " ", "R", "e", "t", "a", "i", "l">>), Text(<<"E", "x", "t", ".", " ", "R", "e", "t", "a", "i", "l">>), Text(<<"T", "o", "t", "a", "l", "_", "R", "e", "t", "a", "i", "l", "_", "V", "a", "l", "u", "e">>)>>,
      <<Text(<<"Q", "t", "y">>), NotText(<<"2", "0", "2", "4">>), Text(<<"E", "x", "t", ".", " ", "R", "e", "t", "a", "i", "l">>)>> }

\* the cells generated at each column position
Pool(i) ==
    CASE i = 1 -> {IntCell(10), StrCell(<<"(", "5", ")">>), StrCell(<<"x">>)}
      [] i = 2 -> {StrCell(<<"$", "5", ".", "0", "0">>), NaN}
      [] i = 3 -> {StrCell(<<"$", "2", ".", "0", "0">>), StrCell(<<"-", "3">>)}
      [] OTHER -> {FloatCell(999, 2)}

Rows(n) == {r \in [1..n -> UNION {Pool(i) : i \in 1..n}] : \A i \in 1..n : r[i] \in Pool(i)}

CsvName == Name("a", "csv")
XlsxName == Name("b", "xlsx")

\* a generated table, read from an Excel file (whose columns may mix types)
GeneratedFile(h, t) == File(XlsxName, "", "", "", h, t)

\* the header lists a CSV file can have: read_csv names every column by text
CsvHeaderLists == {h \in FileHeaderLists : \A i \in 1..Len(h) : h[i].isstr}

\* the CSV readers' outcomes on a table: the UTF-8 attempt succeeds, it fails
\* and Latin-1 succeeds, both fail
CsvFiles(h, t) ==
    { File(CsvName, "", "", "", h, t),
      File(CsvName, "utf-8 codec can't decode", "", "", h, t),
      File(CsvName, "utf-8 codec can't decode", "Error tokenizing data", "", h, t) }

\* the Excel reader fails
BadExcelFile(h, t) == File(XlsxName, "", "", "File is not a zip file", h, t)

\* a few files of every outcome, for the batches
BatchFiles ==
    { ExampleFile,
      File(Name("a", "csv"), "", "", "", <<Text(<<"N", "a", "m", "e">>), Text(<<"P", "r", "i", "c", "e">>)>>,
           << <<StrCell(<<"x">>), StrCell(<<"$", "5", ".", "0", "0">>)>> >>),
      File(Name("a", "csv"), "utf-8 codec can't decode", "Error tokenizing data", "",
           ExampleHeader, <<>>),
      File(Name("b", "xlsx"), "", "", "File is not a zip file", ExampleHeader, <<>>),
      File(Name("b", "xlsx"), "", "", "", <<Text(<<"Q", "t", "y">>), NotText(<<"2", "0", "2", "4">>), Text(<<"E", "x", "t", ".", " ", "R", "e", "t", "a", "i", "l">>)>>,
           <<>>),
      File(Name("c", "csv"), "", "", "",
           <<Text(<<"Q", "t", "y">>), Text(<<" ", "Q", "t", "y">>), Text(<<"U", "n", "i", "t", " ", "R", "e", "t", "a", "i", "l">>), Text(<<"E", "x", "t", ".", " ", "R", "e", "t", "a", "i", "l">>)>>, <<>>) }

(***************************************************************************)
(* The analysis tab (src/app.py 273-431) on the summaries with status OK.  *)
(* Amounts are whole dollars (the generated retail totals are multiples   *)
(* of 100, so every percentage of them is whole); a ratio is num / den, or *)
(* what float division by zero leaves in a pandas column: inf, -inf, nan.  *)
(***************************************************************************)
Ratio(n, d) == [kind |-> "num", num |-> n, den |-> d]
ZeroRatio == Ratio(0, 1)

\* a pandas column divided by a column holding 0: no exception, inf or NaN
SeriesDiv(a, b) ==
    IF b # 0 THEN Ratio(a, b)
    ELSE [kind |-> IF a > 0 THEN "inf" ELSE IF a < 0 THEN "-inf" ELSE "nan",
          num |-> 0, den |-> 1]

\* r * 100
Times100(r) == IF r.kind = "num" THEN Ratio(r.num * 100, r.den) ELSE r

RECURSIVE SumField(_, _)
\* valid_packages[field].sum()
SumField(ps, field) ==
    IF ps = <<>> THEN 0 ELSE Head(ps)[field] + SumField(Tail(ps), field)

\* the aggregates of one OK package, in dollars
PackageCosts == <<0, 40, -40>>
PackageRetails == <<0, 100>>
Package(c, r) == [Total_Cost |-> PackageCosts[c], Total_Retail |-> PackageRetails[r]]

\* slider values (line 261) and number inputs (lines 264-265), in dollars
Discounts == {10, 35, 100}
Overheads == {0, 50}

ReportStart(ps, d, fr, mi) ==
    [rpos |-> "loaded", packages |-> ps, discount_scenario |-> d,
     freight_cost |-> fr, misc_cost |-> mi,
     projected_revenue |-> 0, total_expenses |-> 0, projected_profit |-> 0,
     roi |-> ZeroRatio, file_expenses |-> <<>>, file_profit |-> <<>>,
     file_roi |-> <<>>]

\* lines 280-409: one run of the tab with at least one OK package: the
\* scenario figures (283-294) and the package comparison table (407-409)
Analysis ==
    /\ report.rpos = "loaded"
    /\ report.packages # <<>>
    /\ LET ps == report.packages
           num_packages == Len(ps)
           total_freight == report.freight_cost * num_packages
           total_misc == report.misc_cost * num_packages
           total_purchase_cost == SumField(ps, "Total_Cost")
           total_retail_value == SumField(ps, "Total_Retail")
           projected_revenue == (total_retail_value * report.discount_scenario) \div 100
           total_expenses == total_purchase_cost + total_freight + total_misc
           projected_profit == projected_revenue - total_expenses
           roi == IF total_expenses > 0
                  THEN Times100(Ratio(projected_profit, total_expenses))
                  ELSE ZeroRatio
           overhead == report.freight_cost + report.misc_cost
           revenue(i) == (ps[i].Total_Retail * report.discount_scenario) \div 100
           profit(i) == revenue(i) - ps[i].Total_Cost - overhead
           expenses(i) == ps[i].Total_Cost + overhead
       IN  report' = [report EXCEPT
                        !.rpos = "table",
                        !.projected_revenue = projected_revenue,
                        !.total_expenses = total_expenses,
                        !.projected_profit = projected_profit,
                        !.roi = roi,
                        !.file_expenses = [i \in 1..Len(ps) |-> expenses(i)],
                        !.file_profit = [i \in 1..Len(ps) |-> profit(i)],
                        !.file_roi = [i \in 1..Len(ps) |->
                                         Times100(SeriesDiv(profit(i), expenses(i)))]]
    /\ UNCHANGED <<loaderVars, normVars, resolveVars>>

\* lines 430-432: no package with status OK
NoValidPackages ==
    /\ report.rpos = "loaded"
    /\ report.packages = <<>>
    /\ report' = [report EXCEPT !.rpos = "warning"]
    /\ UNCHANGED <<loaderVars, normVars, resolveVars>>

(***************************************************************************)
(* Specifications.                                                         *)
(***************************************************************************)
ReportIdle == [ReportStart(<<>>, 0, 0, 0) EXCEPT !.rpos = "idle"]

LoaderIdle == uploaded_files = <<>> /\ idx = 1 /\ all_data = <<>> /\ pc = "idle"
NormIdle == x = Pending /\ y = Pending /\ z = Pending /\ npc = "idle"
ResolveIdle == columns = <<>> /\ resolved = ResolveColumns(<<>>) /\ rpc = "idle"

InitNormalize ==
    /\ x \in RawCells
    /\ y = Pending
    /\ z = Pending
    /\ npc = "in"
    /\ LoaderIdle
    /\ ResolveIdle
    /\ report = ReportIdle

NextNormalize == Normalize \/ Renormalize

\* clean_currency on every raw cell, then on the text of each number it returns
SpecNormalize == InitNormalize /\ [][NextNormalize]_vars

InitResolve ==
    /\ columns \in HeaderLists
    /\ resolved = ResolveColumns(<<>>)
    /\ rpc = "in"
    /\ LoaderIdle
    /\ NormIdle
    /\ report = ReportIdle

NextResolve == Resolve

\* the fuzzy column resolution on every generated header list
SpecResolve == InitResolve /\ [][NextResolve]_vars

LoaderStart ==
    /\ idx = 1
    /\ all_data = <<>>
    /\ pc = "loop"
    /\ NormIdle
    /\ ResolveIdle
    /\ report = ReportIdle

\* one uploaded file: a generated table of up to MaxRows rows under each header
\* list, each reader outcome on the tables of at most one row, and the example
InitLoad ==
    /\ \/ \E h \in FileHeaderLists : \E k \in 0..MaxRows : \E t \in [1..k -> Rows(Len(h))] :
             uploaded_files = <<GeneratedFile(h, t)>>
       \/ \E h \in CsvHeaderLists : \E k \in 0..1 : \E t \in [1..k -> Rows(Len(h))] :
             \E f \in CsvFiles(h, t) : uploaded_files = <<f>>
       \/ \E h \in FileHeaderLists : \E k \in 0..1 : \E t \in [1..k -> Rows(Len(h))] :
             uploaded_files = <<BadExcelFile(h, t)>>
       \/ uploaded_files = <<ExampleFile>>
    /\ LoaderStart

\* a batch of up to MaxFiles files
InitBatch ==
    /\ \E n \in 0..MaxFiles : uploaded_files \in [1..n -> BatchFiles]
    /\ LoaderStart

NextLoader == LoadFile \/ Return

\* load_data on every one-file batch of the generated files
Spec == InitLoad /\ [][NextLoader]_vars

\* load_data on every batch of up to MaxFiles of the batch files
SpecBatch == InitBatch /\ [][NextLoader]_vars

InitReport ==
    /\ \E n \in 0..MaxPackages :
         \E cs \in [1..n -> DOMAIN PackageCosts] : \E rs \in [1..n -> DOMAIN PackageRetails] :
         \E d \in Discounts : \E fr \in Overheads : \E mi \in Overheads :
            report = ReportStart([i \in 1..n |-> Package(cs[i], rs[i])], d, fr, mi)
    /\ LoaderIdle
    /\ NormIdle
    /\ ResolveIdle

NextReport == Analysis \/ NoValidPackages

\* the scenario figures of the analysis tab on every generated set of packages
SpecReport == InitReport /\ [][NextReport]_vars

(***************************************************************************)
(* The properties checked.                                                 *)
(***************************************************************************)
\* the file is read and every header value is text: the per-file step
\* reaches the column resolution
Parses(f) == ReadException(f) = "" /\ \A i \in 1..Len(f.header) : f.header[i].isstr

\* the header names as line 172 leaves them
TrimmedNames(f) == [i \in 1..Len(f.header) |-> strip(f.header[i].s)]

HasWord(c, w) == Contains(lower(c), w)

QtyIndexes(cols) == {i \in 1..Len(cols) : HasWord(cols[i], <<"q", "t", "y">>)}
UnitRetailIndexes(cols) == {i \in 1..Len(cols) : HasWord(cols[i], <<"u", "n", "i", "t", " ", "r", "e", "t", "a", "i", "l">>)}
PlainRetailIndexes(cols) ==
    {i \in 1..Len(cols) : HasWord(cols[i], <<"r", "e", "t", "a", "i", "l">>) /\ ~HasWord(cols[i], <<"e", "x", "t">>)}
ExtRetailIndexes(cols) ==
    {i \in 1..Len(cols) : HasWord(cols[i], <<"e", "x", "t">>) /\ HasWord(cols[i], <<"r", "e", "t", "a", "i", "l">>)}
ExtCostIndexes(cols) ==
    {i \in 1..Len(cols) : HasWord(cols[i], <<"c", "o", "s", "t">>) /\ HasWord(cols[i], <<"e", "x", "t">>)}

\* the positions of the quantity, retail and cost columns, 0 when unresolved
FirstOf(S) == IF S = {} THEN 0 ELSE CHOOSE i \in S : \A j \in S : i <= j
QtyIndex(cols) == FirstOf(QtyIndexes(cols))
RetailIndex(cols) ==
    IF UnitRetailIndexes(cols) # {} THEN FirstOf(UnitRetailIndexes(cols))
    ELSE FirstOf(PlainRetailIndexes(cols))
CostIndex(cols) ==
    IF ExtRetailIndexes(cols) # {} THEN FirstOf(ExtRetailIndexes(cols))
    ELSE FirstOf(ExtCostIndexes(cols))

NameAt(cols, i) == IF i = 0 THEN NoColumn ELSE Column(cols[i])

AllResolved(cols) == QtyIndex(cols) # 0 /\ RetailIndex(cols) # 0 /\ CostIndex(cols) # 0

ZeroAggregates(s) ==
    /\ s.Items = Zero
    /\ s.Variety = 0
    /\ s.Total_Cost = Zero
    /\ s.Total_Retail = Zero
    /\ s.Raw_Data = EmptyFrame

\* C1: a batch of N files returns exactly N summaries, the i-th bearing the
\* i-th file's name, whatever the outcome of each file; load_data returns
\* (no file's failure stops the loop or leaves load_data by an exception).
C1_OneSummaryPerFileInOrder ==
    /\ pc # "raised"
    /\ Len(all_data) = idx - 1
    /\ \A i \in 1..Len(all_data) : all_data[i].Filename = uploaded_files[i].name
    /\ pc = "returned" => Len(all_data) = Len(uploaded_files)

\* C1 witness: a returned batch of three files in which a file that failed
\* is followed by a file that loaded
C1_Witness ==
    /\ pc = "returned"
    /\ Len(all_data) = 3
    /\ all_data[1].Status = "CRITICAL ERROR"
    /\ all_data[2].Status = "ERROR"
    /\ all_data[3].Status = "OK"

IsExample(f) ==
    /\ Parses(f)
    /\ f.header = ExampleHeader
    /\ f.rows = ExampleFile.rows

\* C3 as stated: the CSV with header Qty,Unit Retail,Ext. Retail and rows
\* (10, "$5.00", "$2.00"), (5, "$10.00", "$4.00") loads with status OK,
\* 15 items, total retail 100, total cost 10*2 + 5*4 = 40 and variety 2.
C3_EndToEndExample ==
    \A i \in 1..Len(all_data) :
        IsExample(uploaded_files[i]) =>
            /\ all_data[i].Status = "OK"
            /\ all_data[i].Items = [m |-> 15, e |-> 0]
            /\ all_data[i].Total_Retail = [m |-> 100, e |-> 0]
            /\ all_data[i].Total_Cost = [m |-> 40, e |-> 0]
            /\ all_data[i].Variety = 2

\* C3 amended: the same file loads with status OK, 15 items, total retail
\* 10*5 + 5*10 = 100, variety 2 and total cost 2 + 4 = 6, the sum of the
\* cleaned cost column (not multiplied by the quantity).
C3_EndToEndExampleCostSummed ==
    \A i \in 1..Len(all_data) :
        IsExample(uploaded_files[i]) =>
            /\ all_data[i].Status = "OK"
            /\ all_data[i].Items = [m |-> 15, e |-> 0]
            /\ all_data[i].Total_Retail = [m |-> 100, e |-> 0]
            /\ all_data[i].Total_Cost = [m |-> 6, e |-> 0]
            /\ all_data[i].Variety = 2

\* C3 witness: the example file has been loaded
C3_Witness ==
    /\ Len(all_data) = 1
    /\ IsExample(uploaded_files[1])
    /\ Len(all_data[1].Raw_Data.data) = 2

\* C4: when the per-file step raises, the file's summary has status
\* CRITICAL ERROR, the exception's message as Details, all four aggregates 0
\* and an empty row table, and the exception does not leave load_data.
C4_ExceptionIsCriticalError ==
    /\ pc # "raised"
    /\ \A i \in 1..Len(all_data) :
          LET r == TryBody(uploaded_files[i])
              s == all_data[i]
          IN  r.exc # "" =>
                /\ s.Status = "CRITICAL ERROR"
                /\ s.Details = [text |-> r.exc, found |-> <<>>]
                /\ ZeroAggregates(s)

\* C4 witness: both the UTF-8 attempt and the Latin-1 fallback failed on a
\* file with rows, and its summary carries the fallback's message
C4_Witness ==
    /\ Len(all_data) = 1
    /\ uploaded_files[1].utf8_exc # ""
    /\ uploaded_files[1].latin1_exc # ""
    /\ uploaded_files[1].rows # <<>>
    /\ all_data[1].Status = "CRITICAL ERROR"
    /\ all_data[1].Details.text = uploaded_files[1].latin1_exc

\* C4 witness of an exception raised after the read: a table whose resolved
\* quantity label occurs twice once trimmed
C4_WitnessAfterRead ==
    /\ Len(all_data) = 1
    /\ ReadException(uploaded_files[1]) = ""
    /\ all_data[1].Status = "CRITICAL ERROR"
    /\ all_data[1].Details.text = FrameError

\* C5: over the trimmed headers, case-insensitively, first match in column
\* order: quantity is the first header containing "qty"; retail the first
\* containing "unit retail", else the first containing "retail" and not
\* "ext"; cost the first containing "ext" and "retail", else the first
\* containing "cost" and "ext"; unresolved only when no header qualifies.
C5_FirstMatchWins ==
    rpc = "out" =>
        /\ resolved.qty = NameAt(columns, QtyIndex(columns))
        /\ resolved.retail = NameAt(columns, RetailIndex(columns))
        /\ resolved.cost = NameAt(columns, CostIndex(columns))

\* C5 witness: a header with "cost" and "ext" comes before one with "ext" and
\* "retail", and the later one is the cost column; "unit retail" wins over an
\* earlier plain "retail"
C5_Witness ==
    /\ rpc = "out"
    /\ columns = <<<<"E", "x", "t", " ", "C", "o", "s", "t">>, <<"R", "e", "t", "a", "i", "l">>, <<"E", "X", "T", " ", "U", "N", "I", "T", " ", "R", "E", "T", "A", "I", "L">>>>
    /\ resolved.cost = Column(<<"E", "X", "T", " ", "U", "N", "I", "T", " ", "R", "E", "T", "A", "I", "L">>)
    /\ resolved.retail = Column(<<"E", "X", "T", " ", "U", "N", "I", "T", " ", "R", "E", "T", "A", "I", "L">>)
    /\ ~resolved.qty.found

\* the cleaned value of a raw cell: normalized, coerced, missing as 0
Cleaned(cell) == NumVal(fillna0(to_numeric(clean_currency(cell))))

\* the raw cell normalizes to Missing or to residual text
CleaningFails(cell) == clean_currency(cell).kind \in {"nan", "str"}

\* C6: in every row of every file with status OK the cleaned quantity is
\* >= 0, and a cell whose cleaning fails counts as 0 in the quantity, retail
\* and cost columns.
C6_QuantityNonNegative ==
    \A i \in 1..Len(all_data) :
        all_data[i].Status = "OK" =>
            LET df == all_data[i].Raw_Data
                f == uploaded_files[i]
                cols == TrimmedNames(f)
            IN  \A r \in 1..Len(df.data) :
                    /\ Series(df, Qty_Clean)[r].m >= 0
                    /\ CleaningFails(f.rows[r][QtyIndex(cols)]) => Series(df, Qty_Clean)[r].m = 0
                    /\ CleaningFails(f.rows[r][RetailIndex(cols)]) => Series(df, Retail_Clean)[r].m = 0
                    /\ CleaningFails(f.rows[r][CostIndex(cols)]) => Series(df, Cost_Clean)[r].m = 0

\* C7 as stated: for every cell x, boolean cells included, whose
\* normalization is a number, the text of that number normalizes to a number
\* of the same value.
C7_IdempotentOnEveryNumber ==
    npc = "out" /\ IsNumber(y) =>
        LET again == clean_currency(StrCell(PyStr(y)))
        IN  IsNumber(again) /\ NumVal(again) = NumVal(y)

\* C7 amended: for every text, byte-sequence, integer or float cell x (not a
\* boolean) whose normalization is a number, the text of that number
\* normalizes to a number of the same value.
C7_IdempotentOnNonBoolean ==
    /\ npc = "out" /\ IsNumber(y) /\ x.kind # "bool" =>
          LET again == clean_currency(StrCell(PyStr(y)))
          IN  IsNumber(again) /\ NumVal(again) = NumVal(y)
    /\ npc = "again" /\ x.kind # "bool" => IsNumber(z) /\ NumVal(z) = NumVal(y)

\* C7 witness: a parenthesized text cell gave a negative number whose text
\* has been normalized again
C7_Witness ==
    /\ npc = "again"
    /\ x = StrCell(<<"(", ".", "5", ")">>)
    /\ y = FloatCell(-5, 1)
    /\ z = y

\* C8: a file whose three required columns are resolved has status OK and
\* empty Details whatever its cells hold, and every cell of the quantity,
\* retail and cost columns that normalizes to Missing or to residual text
\* counts as 0 in its row.
C8_ResolvedFileIsOk ==
    \A i \in 1..Len(all_data) :
        LET f == uploaded_files[i]
            s == all_data[i]
            cols == TrimmedNames(f)
        IN  (Parses(f) /\ AllResolved(cols)) =>
                /\ s.Status = "OK"
                /\ s.Details = NoDetails
                /\ \A r \in 1..Len(f.rows) :
                      /\ CleaningFails(f.rows[r][QtyIndex(cols)])
                            => Series(s.Raw_Data, Qty_Clean)[r].m = 0
                      /\ CleaningFails(f.rows[r][RetailIndex(cols)])
                            => Series(s.Raw_Data, Retail_Clean)[r].m = 0
                      /\ CleaningFails(f.rows[r][CostIndex(cols)])
                            => Series(s.Raw_Data, Cost_Clean)[r].m = 0

\* the ROI the claim gives for a profit and expenses
IsClaimedRoi(r, profit, expenses) ==
    IF expenses = 0 THEN r = ZeroRatio
    ELSE r.kind = "num" /\ r.den # 0 /\ r.num * expenses = profit * 100 * r.den

\* C9: the portfolio ROI and every per-file ROI of the package table equal
\* profit / expenses * 100 when expenses is not 0 and 0 when it is 0 (no
\* division by zero: no figure is inf or NaN).
C9_RoiGuardsZeroExpenses ==
    report.rpos = "table" =>
        /\ IsClaimedRoi(report.roi, report.projected_profit, report.total_expenses)
        /\ \A i \in 1..Len(report.file_roi) :
              IsClaimedRoi(report.file_roi[i], report.file_profit[i], report.file_expenses[i])

RECURSIVE RetailTotal(_, _, _)
\* the sum over the rows of cleaned quantity * cleaned unit retail
RetailTotal(rows, qi, ri) ==
    IF rows = <<>> THEN Zero
    ELSE DecAdd(DecMul(Cleaned(Head(rows)[qi]), Cleaned(Head(rows)[ri])),
                RetailTotal(Tail(rows), qi, ri))

\* C10: for a file with status OK, Total_Retail is the sum over its rows of
\* cleaned quantity * cleaned unit retail, from the resolved quantity and
\* retail columns, also when the file brings a total column of its own.
C10_TotalRetailRecomputed ==
    \A i \in 1..Len(all_data) :
        all_data[i].Status = "OK" =>
            LET f == uploaded_files[i]
                cols == TrimmedNames(f)
            IN  all_data[i].Total_Retail = RetailTotal(f.rows, QtyIndex(cols), RetailIndex(cols))

\* C10 witness: a loaded file that has a Total_Retail_Value column of its
\* own, rows, and a total retail that is not 0
C10_Witness ==
    /\ Len(all_data) = 1
    /\ all_data[1].Status = "OK"
    /\ \E j \in 1..Len(uploaded_files[1].header) :
          uploaded_files[1].header[j].s = Total_Retail_Value
    /\ Len(uploaded_files[1].rows) = 2
    /\ all_data[1].Total_Retail.m > 0

\* the text of a cell once currency/grouping symbols are stripped
SymbolsStripped(t) == strip(ReplaceChar(RemoveChars(t, {"$", "EUR", "GBP", ",", "%", "NBSP"}), "MINUS", "-"))

\* the trimmed text is fully wrapped in ( and )
Wrapped(t) == Len(t) >= 2 /\ t[1] = "(" /\ t[Len(t)] = ")"

\* the text between the parentheses of a wrapped text
Inner(t) == SubSeq(t, 2, Len(t) - 1)

\* the cell is Number(m / 10^e)
IsNumberOf(cell, m, e) == cell.kind = "float" /\ NumVal(cell) = Canon(m, e)

\* C11: a text cell that, trimmed, is fully wrapped in ( and ) and whose
\* inner text parses to v once the symbols are stripped normalizes to
\* Number(-v); a text cell that is not wrapped and parses to v normalizes to
\* Number(v) ("$1,234.56" gives 1234.56, "(1,234.56)" gives -1234.56); a
\* wrapped cell whose inner text does not parse gives Missing or the
\* stripped inner text, with no sign.
C11_ParenthesesNegate ==
    npc = "out" /\ x.kind = "str" =>
        LET t == strip(x.s)
            s == SymbolsStripped(IF Wrapped(t) THEN Inner(t) ELSE t)
        IN  /\ Wrapped(t) /\ IsFloatLiteral(s) => IsNumberOf(y, -float(s).m, float(s).e)
            /\ ~Wrapped(t) /\ IsFloatLiteral(s) => IsNumberOf(y, float(s).m, float(s).e)
            /\ Wrapped(t) /\ ~IsFloatLiteral(s) => y \in {NaN, StrCell(s)}
            /\ x.s = <<"$", "1", ",", "2", "3", "4", ".", "5", "6">> => IsNumberOf(y, 123456, 2)
            /\ x.s = <<"(", "1", ",", "2", "3", "4", ".", "5", "6", ")">> => IsNumberOf(y, -123456, 2)

\* C11 witness: the wrapped text "(1,234.56)" has been normalized to -1234.56
C11_Witness ==
    /\ npc = "out"
    /\ x = StrCell(<<"(", "1", ",", "2", "3", "4", ".", "5", "6", ")">>)
    /\ y = FloatCell(-123456, 2)

====
